---- MODULE Spec2Model ----
(***************************************************************************)
(* ReaderSpace library management (src/ReaderSpace_app.py).                *)
(*                                                                         *)
(* The program is a Streamlit script.  Every user interaction re-executes  *)
(* the script from its first line: the dataset is loaded from the JSON     *)
(* file, the page selected in the sidebar is drawn, and the branch of the  *)
(* button that was clicked (st.button is True only in the run its click    *)
(* triggers) is executed.  One action of Spec is one such run of the       *)
(* script.  SpecIO splits save_data into the file operations it performs,  *)
(* interleaved with the load_data of a second session.                     *)
(***************************************************************************)
EXTENDS Integers, Sequences, FiniteSets, TLC

VARIABLES
    file,      \* library_users.json: whether it exists and the JSON text in it
    data,      \* the module-level dict `data` as the latest run left it
    now,       \* the clock: index into DateList of datetime.now()
    twilio,    \* TWILIO_AVAILABLE (whether `import twilio` succeeds)
    rendered,  \* the buttons the latest run drew, i.e. those that can be clicked
    lastOp,    \* what the latest run was asked to do (history)
    pre,       \* `data` before the latest run (history)
    preFile,   \* `file` before the latest run (history)
    output,    \* what the latest run displayed, in order
    effects,   \* the external effects of the latest run, in order
    status,    \* "ok" or "exception": how the latest run ended
    wpc,       \* SpecIO: position of the writing session inside save_data
    wdata,     \* SpecIO: the dataset the writing session is saving
    wold,      \* SpecIO: the dataset the file held before that save
    observed   \* SpecIO: what the latest load_data of the reading session got

vars == <<file, data, now, twilio, rendered, lastOp, pre, preFile, output,
          effects, status, wpc, wdata, wold, observed>>

-----------------------------------------------------------------------------
(* Bounds of the model *)

MaxMembers == 2
MaxMonths == 2

(* Program constants *)

MONTHLY_FEE == 500
CodeBase == 2025001

-----------------------------------------------------------------------------
(* Dates.  datetime.now() takes its value from DateList[now]. *)

DateList ==
    << [year |-> 2024, month |-> 1, day |-> 1],
       [year |-> 2024, month |-> 1, day |-> 31],
       [year |-> 2024, month |-> 2, day |-> 1],
       [year |-> 2025, month |-> 3, day |-> 15] >>

DigitChars == << "0", "1", "2", "3", "4", "5", "6", "7", "8", "9" >>

DigitChar(n) == DigitChars[n + 1]

CharDigit(c) == CHOOSE n \in 0..9 : DigitChars[n + 1] = c

\* mutant: day and month exchanged ("%Y-%d-%m")
StrfTimeDayFirst(dt) ==
    << DigitChar(dt.year \div 1000), DigitChar((dt.year \div 100) % 10),
       DigitChar((dt.year \div 10) % 10), DigitChar(dt.year % 10), "-",
       DigitChar(dt.day \div 10), DigitChar(dt.day % 10), "-",
       DigitChar(dt.month \div 10), DigitChar(dt.month % 10) >>

\* strftime("%Y-%m-%d"): four digits, dash, two digits, dash, two digits
StrfTime(dt) ==
    << DigitChar(dt.year \div 1000), DigitChar((dt.year \div 100) % 10),
       DigitChar((dt.year \div 10) % 10), DigitChar(dt.year % 10), "-",
       DigitChar(dt.month \div 10), DigitChar(dt.month % 10), "-",
       DigitChar(dt.day \div 10), DigitChar(dt.day % 10) >>

\* datetime.strptime(s, "%Y-%m-%d")
StrpTime(s) ==
    [year  |-> CharDigit(s[1]) * 1000 + CharDigit(s[2]) * 100
                 + CharDigit(s[3]) * 10 + CharDigit(s[4]),
     month |-> CharDigit(s[6]) * 10 + CharDigit(s[7]),
     day   |-> CharDigit(s[9]) * 10 + CharDigit(s[10])]

\* mutant: elapsed days over thirty instead of the calendar months
MonthsDueByDays(today, last_payment) ==
    ((today.year - last_payment.year) * 365
        + (today.month - last_payment.month) * 30
        + (today.day - last_payment.day)) \div 30

\* (today.year - last_payment.year) * 12 + (today.month - last_payment.month)
MonthsDue(today, last_payment) ==
    (today.year - last_payment.year) * 12 + (today.month - last_payment.month)

-----------------------------------------------------------------------------
(* The dict `data`: insertion-ordered, a sequence of [code, user] items. *)

\* mutant: the code does not count the members
LibraryCodeFixed(d) == [prefix |-> "L", num |-> CodeBase]

\* "L" + str(len(data) + 2025001)
LibraryCode(d) == [prefix |-> "L", num |-> Len(d) + CodeBase]

DictHas(d, code) == \E i \in 1..Len(d) : d[i].code = code

DictIndex(d, code) == CHOOSE i \in 1..Len(d) : d[i].code = code

DictGet(d, code) == d[DictIndex(d, code)].user

\* mutant: the dict is rebound to one holding the new item alone
DictSetAlone(d, code, user) == << [code |-> code, user |-> user] >>

\* data[code] = user: replaces the value of an existing key, else appends
DictSet(d, code, user) ==
    IF DictHas(d, code)
    THEN [d EXCEPT ![DictIndex(d, code)] = [code |-> code, user |-> user]]
    ELSE Append(d, [code |-> code, user |-> user])

DictKeys(d) == {d[i].code : i \in 1..Len(d)}

-----------------------------------------------------------------------------
(* The record store.  The JSON text of the file is "{", then one item per  *)
(* member, then "}"; a text is a prefix of that: `open` says that "{" is   *)
(* there, `closed` that "}" is.                                            *)

NoFile == [exists |-> FALSE, open |-> FALSE, items |-> <<>>, closed |-> FALSE]

\* open(FILENAME, "w"): creates the file or truncates it to nothing
Truncated == [exists |-> TRUE, open |-> FALSE, items |-> <<>>, closed |-> FALSE]

\* the first n pieces of the text json.dump(data, f, indent=4) writes:
\* "{", the items of the dict in order, "}"
TextPrefix(d, n) ==
    [exists |-> TRUE,
     open   |-> n >= 1,
     items  |-> SubSeq(d, 1, IF n - 1 < Len(d) THEN n - 1 ELSE Len(d)),
     closed |-> n = Len(d) + 2]

\* how many pieces of its text a file holds
Written(f) ==
    (IF f.open THEN 1 ELSE 0) + Len(f.items) + (IF f.closed THEN 1 ELSE 0)

\* the complete text json.dump(data, f, indent=4) writes
JsonDump(d) == TextPrefix(d, Len(d) + 2)

\* json.load: JSONDecodeError unless the text is a complete JSON value
JsonLoad(f) ==
    IF f.open /\ f.closed
    THEN [raised |-> FALSE, value |-> f.items]
    ELSE [raised |-> TRUE, value |-> <<>>]

\* load_data()
load_data(f) ==
    IF f.exists THEN JsonLoad(f) ELSE [raised |-> FALSE, value |-> <<>>]

\* save_data(data), run to completion
save_data(d) == JsonDump(d)

-----------------------------------------------------------------------------
(* What a run shows (st.error, st.success, st.warning, st.info, st.write,  *)
(* st.json, a row of st.dataframe) and the result of a page.               *)

NoCode == [prefix |-> "", num |-> 0]

Msg(kind, code, months, amount) ==
    [kind |-> kind, code |-> code, months |-> months, amount |-> amount]

\* st.button(label): True only in the run that the click of this button triggers
Button(label, clicked) == clicked = label

Result(d, f, out, eff, st, btns) ==
    [data |-> d, file |-> f, output |-> out, effects |-> eff, status |-> st,
     rendered |-> btns]

\* mutant: no try/except around the Twilio calls
send_smsUncaught(available, gateway) ==
    IF ~available
    THEN [output |-> <<>>, effects |-> <<>>, raised |-> FALSE]
    ELSE IF gateway = "delivered"
         THEN [output |-> <<>>, effects |-> <<"sms">>, raised |-> FALSE]
         ELSE [output |-> <<>>, effects |-> <<>>, raised |-> TRUE]

\* send_sms(contact, message).  gateway is what Twilio would do with the
\* message: "delivered", "failed" (messages.create raises) or "nosecrets"
\* (st.secrets[...] raises).  Every exception is caught and shown.
send_sms(available, gateway) ==
    IF ~available
    THEN [output |-> <<>>, effects |-> <<>>, raised |-> FALSE]
    ELSE IF gateway = "delivered"
         THEN [output |-> <<>>, effects |-> <<"sms">>, raised |-> FALSE]
         ELSE [output |-> << Msg("sms_failed", NoCode, 0, 0) >>,
               effects |-> <<>>, raised |-> FALSE]

-----------------------------------------------------------------------------
(* New User Registration *)

\* mutant: the first payment is not booked
NewUserUnpaid(form, admission_date) ==
    [name           |-> form.name,
     father_name    |-> form.father_name,
     address        |-> form.address,
     email          |-> form.email,
     contact        |-> form.contact,
     seatno         |-> form.seatno,
     admission_date |-> admission_date,
     last_payment   |-> admission_date,
     payments       |-> <<>>]

NewUser(form, admission_date) ==
    [name           |-> form.name,
     father_name    |-> form.father_name,
     address        |-> form.address,
     email          |-> form.email,
     contact        |-> form.contact,
     seatno         |-> form.seatno,
     admission_date |-> admission_date,
     last_payment   |-> admission_date,
     payments       |-> << [date |-> admission_date, amount |-> MONTHLY_FEE] >>]

\* mutant: only the name is required
MissingName(form) == form.name = ""

\* `if not name or not father_name or not contact`
MissingRequired(form) ==
    form.name = "" \/ form.father_name = "" \/ form.contact = ""

RegisterPage(d0, f0, clicked, form, today, available, gateway) ==
    LET admission_date == StrfTime(today)
        btns == {"Register"}
    IN  IF ~Button("Register", clicked)
        THEN Result(d0, f0, <<>>, <<>>, "ok", btns)
        ELSE IF MissingRequired(form)
        THEN Result(d0, f0, << Msg("required", NoCode, 0, 0) >>, <<>>, "ok", btns)
        ELSE LET library_code == LibraryCode(d0)
                 d1 == DictSet(d0, library_code, NewUser(form, admission_date))
                 f1 == save_data(d1)
                 sms == send_sms(available, gateway)
             IN  Result(d1, f1,
                        << Msg("registered", library_code, 0, MONTHLY_FEE) >>
                            \o sms.output,
                        <<"save">> \o sms.effects,
                        IF sms.raised THEN "exception" ELSE "ok", btns)

-----------------------------------------------------------------------------
(* Existing User Login *)

\* mutant: data[library_code] without the membership test (KeyError)
LoginPageUnchecked(d0, f0, clicked, library_code) ==
    IF ~Button("Login", clicked)
    THEN Result(d0, f0, <<>>, <<>>, "ok", {"Login"})
    ELSE IF DictHas(d0, library_code)
    THEN Result(d0, f0, << Msg("json", library_code, 0, 0) >>, <<>>, "ok",
                {"Login"})
    ELSE Result(d0, f0, <<>>, <<>>, "exception", {"Login"})

LoginPage(d0, f0, clicked, library_code) ==
    LET btns == {"Login"}
    IN  IF ~Button("Login", clicked)
        THEN Result(d0, f0, <<>>, <<>>, "ok", btns)
        ELSE IF DictHas(d0, library_code)
        THEN Result(d0, f0, << Msg("json", library_code, 0, 0) >>, <<>>, "ok", btns)
        ELSE Result(d0, f0, << Msg("invalid", NoCode, 0, 0) >>, <<>>, "ok", btns)

-----------------------------------------------------------------------------
(* Check Pending Payments: the loop over data.items(), from item i on *)

RECURSIVE PendingLoop(_, _, _, _, _)
PendingLoop(d0, i, today, available, gateway) ==
    IF i > Len(d0)
    THEN [output |-> <<>>, effects |-> <<>>, raised |-> FALSE]
    ELSE LET code == d0[i].code
             user == d0[i].user
             last_payment == StrpTime(user.last_payment)
             months_due == MonthsDue(today, last_payment)
             due_amount == months_due * MONTHLY_FEE
             sms == IF months_due > 0
                    THEN send_sms(available, gateway)
                    ELSE [output |-> <<>>, effects |-> <<>>, raised |-> FALSE]
             shown == IF months_due > 0
                      THEN << Msg("owes", code, months_due, due_amount) >>
                      ELSE << Msg("up_to_date", code, 0, 0) >>
             rest == IF sms.raised
                     THEN [output |-> <<>>, effects |-> <<>>, raised |-> TRUE]
                     ELSE PendingLoop(d0, i + 1, today, available, gateway)
         IN  [output  |-> shown \o sms.output \o rest.output,
              effects |-> sms.effects \o rest.effects,
              raised  |-> rest.raised]

PendingPage(d0, f0, today, available, gateway) ==
    LET loop == PendingLoop(d0, 1, today, available, gateway)
    IN  Result(d0, f0, loop.output, loop.effects,
               IF loop.raised THEN "exception" ELSE "ok", {})

-----------------------------------------------------------------------------
(* Record Payment *)

RecordPaymentPage(d0, f0, clicked, library_code, months_paid, today, available, gateway) ==
    IF ~Button("Fetch User", clicked)
    THEN Result(d0, f0, <<>>, <<>>, "ok", {"Fetch User"})
    ELSE IF ~DictHas(d0, library_code)
    THEN Result(d0, f0, << Msg("invalid", NoCode, 0, 0) >>, <<>>, "ok",
                {"Fetch User"})
    ELSE LET user == DictGet(d0, library_code)
             last_payment == StrpTime(user.last_payment)
             months_due == MonthsDue(today, last_payment)
             total_amount == months_paid * MONTHLY_FEE
             shown == << Msg("months_due", library_code, months_due, total_amount) >>
             btns == {"Fetch User", "Confirm Payment"}
         IN  IF ~Button("Confirm Payment", clicked)
             THEN Result(d0, f0, shown, <<>>, "ok", btns)
             ELSE LET new_payment_date == StrfTime(today)
                      paid == [user EXCEPT
                                 !.last_payment = new_payment_date,
                                 !.payments = Append(@, [date |-> new_payment_date,
                                                         amount |-> total_amount])]
                      d1 == DictSet(d0, library_code, paid)
                      f1 == save_data(d1)
                      sms == send_sms(available, gateway)
                  IN  Result(d1, f1,
                             shown \o << Msg("paid", library_code, 0, total_amount) >>
                                 \o sms.output,
                             <<"save">> \o sms.effects,
                             IF sms.raised THEN "exception" ELSE "ok", btns)

-----------------------------------------------------------------------------
(* Download Reports *)

\* the rows generate_report appends for one member
UserRows(code, user) ==
    [j \in 1..Len(user.payments) |-> Msg("row", code, 0, user.payments[j].amount)]

RECURSIVE generate_report(_, _)
generate_report(d0, i) ==
    IF i > Len(d0)
    THEN <<>>
    ELSE UserRows(d0[i].code, d0[i].user) \o generate_report(d0, i + 1)

DownloadPage(d0, f0) ==
    LET df == generate_report(d0, 1)
    IN  IF df # <<>>
        THEN Result(d0, f0, df, <<"xlsx">>, "ok", {"Download CSV", "Download Excel"})
        ELSE Result(d0, f0, << Msg("no_data", NoCode, 0, 0) >>, <<>>, "ok", {})

-----------------------------------------------------------------------------
(* One run of the script: load_data(), then the page of the sidebar choice *)

NoForm ==
    [name |-> "", father_name |-> "", address |-> "", email |-> "",
     contact |-> "", seatno |-> ""]

Script(f0, choice, clicked, form, library_code, months_paid, today, available, gateway) ==
    LET loaded == load_data(f0)
        d0 == loaded.value
    IN  IF loaded.raised
        THEN Result(<<>>, f0, <<>>, <<>>, "exception", {})
        ELSE CASE choice = "New User Registration" ->
                    RegisterPage(d0, f0, clicked, form, today, available, gateway)
               [] choice = "Existing User Login" ->
                    LoginPage(d0, f0, clicked, library_code)
               [] choice = "Check Pending Payments" ->
                    PendingPage(d0, f0, today, available, gateway)
               [] choice = "Record Payment" ->
                    RecordPaymentPage(d0, f0, clicked, library_code, months_paid,
                                      today, available, gateway)
               [] choice = "Download Reports" ->
                    DownloadPage(d0, f0)

-----------------------------------------------------------------------------
(* Inputs *)

Names == {"", "Asha", "Ravi"}
FatherNames == {"", "Ram"}
Contacts == {"", "+911234567890"}

Forms ==
    [name : Names, father_name : FatherNames, address : {"Indrapuri"},
     email : {""}, contact : Contacts, seatno : {"12"}]

TypedCodes ==
    {[prefix |-> "L", num |-> CodeBase + i] : i \in 0..MaxMembers}
        \cup {[prefix |-> "l", num |-> CodeBase]}

Gateways == {"delivered", "failed", "nosecrets"}

ClickPages == {"New User Registration", "Existing User Login", "Record Payment"}

Op(op, form, code, months, gateway) ==
    [op |-> op, form |-> form, code |-> code, months |-> months,
     gateway |-> gateway, date |-> now]

IOIdle == /\ wpc = "idle"
          /\ UNCHANGED <<wpc, wdata, wold, observed>>

\* the state a run of the script leaves
Run(r, op) ==
    /\ pre' = data
    /\ preFile' = file
    /\ data' = r.data
    /\ file' = r.file
    /\ output' = r.output
    /\ effects' = r.effects
    /\ status' = r.status
    /\ rendered' = r.rendered
    /\ lastOp' = op
    /\ UNCHANGED <<now, twilio>>
    /\ IOIdle

-----------------------------------------------------------------------------
(* The actions: one run of the script each *)

\* the user picks a page in the sidebar, or edits a field: a run with no click
Navigate(choice) ==
    /\ choice \in ClickPages
    /\ Run(Script(file, choice, "", NoForm, NoCode, 1, DateList[now], twilio,
                  "delivered"),
           Op("Navigate", NoForm, NoCode, 0, "delivered"))

Register(form, gateway) ==
    /\ "Register" \in rendered
    /\ MissingRequired(form) \/ Len(data) < MaxMembers
    /\ Run(Script(file, "New User Registration", "Register", form, NoCode, 1,
                  DateList[now], twilio, gateway),
           Op("Register", form, NoCode, 0, gateway))

Login(library_code) ==
    /\ "Login" \in rendered
    /\ Run(Script(file, "Existing User Login", "Login", NoForm, library_code, 1,
                  DateList[now], twilio, "delivered"),
           Op("Login", NoForm, library_code, 0, "delivered"))

Pending(gateway) ==
    Run(Script(file, "Check Pending Payments", "", NoForm, NoCode, 1,
               DateList[now], twilio, gateway),
        Op("Pending", NoForm, NoCode, 0, gateway))

FetchUser(library_code) ==
    /\ "Fetch User" \in rendered
    /\ Run(Script(file, "Record Payment", "Fetch User", NoForm, library_code, 1,
                  DateList[now], twilio, "delivered"),
           Op("FetchUser", NoForm, library_code, 0, "delivered"))

\* the click of "Confirm Payment", drawn by the run of a "Fetch User" click:
\* the text input still holds the code that run fetched
ConfirmPayment(months_paid, gateway) ==
    /\ "Confirm Payment" \in rendered
    /\ Run(Script(file, "Record Payment", "Confirm Payment", NoForm, lastOp.code,
                  months_paid, DateList[now], twilio, gateway),
           Op("ConfirmPayment", NoForm, lastOp.code, months_paid, gateway))

Download ==
    Run(Script(file, "Download Reports", "", NoForm, NoCode, 1, DateList[now],
               twilio, "delivered"),
        Op("Download", NoForm, NoCode, 0, "delivered"))

\* time passes
Tick ==
    /\ now < Len(DateList)
    /\ now' \in (now + 1)..Len(DateList)
    /\ UNCHANGED <<file, data, twilio, rendered, lastOp, pre, preFile, output,
                   effects, status>>
    /\ IOIdle

Init ==
    /\ file = NoFile
    /\ data = <<>>
    /\ now = 1
    /\ twilio \in BOOLEAN
    /\ rendered = {"Register"}
    /\ lastOp = [op |-> "Navigate", form |-> NoForm, code |-> NoCode,
                 months |-> 0, gateway |-> "delivered", date |-> 1]
    /\ pre = <<>>
    /\ preFile = NoFile
    /\ output = <<>>
    /\ effects = <<>>
    /\ status = "ok"
    /\ wpc = "idle"
    /\ wdata = <<>>
    /\ wold = <<>>
    /\ observed = [raised |-> FALSE, value |-> <<>>, old |-> <<>>, new |-> <<>>]

Next ==
    \/ \E choice \in ClickPages : Navigate(choice)
    \/ \E form \in Forms, gateway \in Gateways : Register(form, gateway)
    \/ \E library_code \in TypedCodes : Login(library_code)
    \/ \E gateway \in Gateways : Pending(gateway)
    \/ \E library_code \in TypedCodes : FetchUser(library_code)
    \/ \E months_paid \in 1..MaxMonths, gateway \in Gateways :
           ConfirmPayment(months_paid, gateway)
    \/ Download
    \/ Tick

Spec == Init /\ [][Next]_vars

-----------------------------------------------------------------------------
(* SpecIO: a run that registers a member, split at the file operations of  *)
(* save_data, while a second session runs load_data (the first line every  *)
(* run of the script executes).  Streamlit runs the sessions of different  *)
(* browsers in different threads of one process.                           *)

MainIdle ==
    UNCHANGED <<twilio, rendered, lastOp, pre, preFile, output, effects, status>>

\* the registering run up to and including open(FILENAME, "w")
IOBegin(form) ==
    /\ wpc = "idle"
    /\ ~MissingRequired(form)
    /\ Len(data) < MaxMembers
    /\ LET d0 == load_data(file).value
           d1 == DictSet(d0, LibraryCode(d0),
                         NewUser(form, StrfTime(DateList[now])))
       IN  /\ data' = d1
           /\ wdata' = d1
           /\ wold' = d0
    /\ file' = Truncated
    /\ wpc' = "writing"
    /\ UNCHANGED <<now, observed>>
    /\ MainIdle

\* json.dump: the next pieces of the text reach the file
IOWrite ==
    /\ wpc = "writing"
    /\ Written(file) < Len(wdata) + 2
    /\ \E n \in (Written(file) + 1)..(Len(wdata) + 2) :
           file' = TextPrefix(wdata, n)
    /\ UNCHANGED <<data, now, wpc, wdata, wold, observed>>
    /\ MainIdle

\* the end of the `with` block, when all the text is written
IOClose ==
    /\ wpc = "writing"
    /\ Written(file) = Len(wdata) + 2
    /\ wpc' = "idle"
    /\ UNCHANGED <<file, data, now, wdata, wold, observed>>
    /\ MainIdle

\* load_data() of the second session
IOLoad ==
    /\ LET loaded == load_data(file)
       IN  observed' = [raised |-> loaded.raised, value |-> loaded.value,
                        old |-> wold, new |-> wdata]
    /\ UNCHANGED <<file, data, now, wpc, wdata, wold>>
    /\ MainIdle

IOTick ==
    /\ now < Len(DateList)
    /\ now' = now + 1
    /\ UNCHANGED <<file, data, wpc, wdata, wold, observed>>
    /\ MainIdle

NextIO ==
    \/ \E form \in Forms : IOBegin(form)
    \/ IOWrite
    \/ IOClose
    \/ IOLoad
    \/ IOTick

SpecIO == Init /\ [][NextIO]_vars

-----------------------------------------------------------------------------
(* Properties *)

\* the latest run was a Register click with a field of the three empty
Rejected ==
    /\ lastOp.op = "Register"
    /\ \/ lastOp.form.name = ""
       \/ lastOp.form.father_name = ""
       \/ lastOp.form.contact = ""

\* the latest run was a Register click with the three fields filled in
Accepted ==
    /\ lastOp.op = "Register"
    /\ lastOp.form.name # ""
    /\ lastOp.form.father_name # ""
    /\ lastOp.form.contact # ""

\* C1: a successful registration made when the dataset holds N members
\* inserts its record under "L" + (2025001 + N), a code that was no key of
\* the dataset before; it overwrites no record, and the codes of the
\* dataset are pairwise distinct.
Inv_C1 ==
    /\ Accepted =>
         LET N == Len(pre)
             code == [prefix |-> "L", num |-> 2025001 + N]
         IN  /\ Len(data) = N + 1
             /\ data[N + 1].code = code
             /\ \A i \in 1..N : pre[i].code # code /\ data[i] = pre[i]
             /\ output[1] = Msg("registered", code, 0, MONTHLY_FEE)
    /\ \A i, j \in 1..Len(data) : i # j => data[i].code # data[j].code

Wit_C1 == Accepted /\ Len(pre) = 1 /\ Len(data) = 2

\* C2: confirming a payment of k months for an existing member on date d
\* appends the payment {date: d, amount: k * MONTHLY_FEE} to the member's
\* payments, sets last_payment to d and saves the dataset.
CE_C2 ==
    (lastOp.op = "ConfirmPayment" /\ DictHas(pre, lastOp.code)) =>
        LET before == DictGet(pre, lastOp.code)
            after == DictGet(data, lastOp.code)
            d == StrfTime(DateList[lastOp.date])
        IN  /\ after.payments =
                  Append(before.payments,
                         [date |-> d, amount |-> lastOp.months * MONTHLY_FEE])
            /\ after.last_payment = d
            /\ file = JsonDump(data)

\* C3: every member has a non-empty payments sequence, and last_payment is
\* the date of the last element of payments.
Inv_C3 ==
    \A i \in 1..Len(data) :
        LET user == data[i].user
        IN  /\ user.payments # <<>>
            /\ user.last_payment = user.payments[Len(user.payments)].date

Wit_C3 == lastOp.op = "ConfirmPayment" /\ Len(data) = 2 /\ lastOp.date > 1

\* C4: right after a successful registration on date d the new record has
\* exactly one payment, of amount MONTHLY_FEE (500) and date d, and
\* admission_date = last_payment = d.
Inv_C4 ==
    Accepted =>
        LET user == data[Len(data)].user
            d == DateList[lastOp.date]
        IN  /\ Len(user.payments) = 1
            /\ user.payments[1].amount = 500
            /\ user.payments[1].date = user.admission_date
            /\ user.last_payment = user.admission_date
            /\ StrpTime(user.admission_date) = d
            /\ lastOp.date = 4 =>
                   user.admission_date =
                       << "2", "0", "2", "5", "-", "0", "3", "-", "1", "5" >>

Wit_C4 == Accepted /\ lastOp.date = 4 /\ Len(data) = 2

\* C5: a Register click with an empty name, father_name or contact is
\* rejected and changes nothing: dataset, store and member count are as
\* before, and nothing is saved or sent.
Inv_C5 ==
    Rejected =>
        /\ data = pre
        /\ file = preFile
        /\ Len(data) = Len(pre)
        /\ output = << Msg("required", NoCode, 0, 0) >>
        /\ effects = <<>>
        /\ status = "ok"

Wit_C5 ==
    /\ Rejected
    /\ lastOp.form.name # ""
    /\ lastOp.form.father_name # ""
    /\ lastOp.form.contact = ""
    /\ Len(pre) = 1

\* C6: a Login or a Fetch User with a code that is no key of the dataset is
\* rejected as invalid and changes neither the dataset nor the store.
Inv_C6 ==
    (lastOp.op \in {"Login", "FetchUser"} /\ lastOp.code \notin DictKeys(pre)) =>
        /\ data = pre
        /\ file = preFile
        /\ output = << Msg("invalid", NoCode, 0, 0) >>
        /\ effects = <<>>
        /\ status = "ok"

Wit_C6 ==
    /\ lastOp.op = "FetchUser"
    /\ lastOp.code = [prefix |-> "l", num |-> CodeBase]
    /\ Len(pre) = 1
    /\ output = << Msg("invalid", NoCode, 0, 0) >>

\* C7: a load that runs while another session saves gets the complete
\* dataset from before the save or the complete dataset being saved.
CE_C7 ==
    /\ ~observed.raised
    /\ observed.value = observed.old \/ observed.value = observed.new

\* C8: no member is deleted and no payment is modified or removed: in every
\* step the codes stay, each payments sequence keeps its former content as
\* a prefix, and name, father_name, contact and admission_date stay.
Keeps_C8 ==
    /\ Len(data') >= Len(data)
    /\ \A i \in 1..Len(data) :
           LET before == data[i].user
               after == data'[i].user
           IN  /\ data'[i].code = data[i].code
               /\ Len(after.payments) >= Len(before.payments)
               /\ SubSeq(after.payments, 1, Len(before.payments)) = before.payments
               /\ after.name = before.name
               /\ after.father_name = before.father_name
               /\ after.contact = before.contact
               /\ after.admission_date = before.admission_date

Prop_C8 == [][Keeps_C8]_vars

Wit_C8 ==
    /\ Len(data) = 2
    /\ data[1].user.name # data[2].user.name
    /\ data[1].user.admission_date # data[2].user.admission_date
    /\ lastOp.op = "Download"

\* C9: whatever the notifier does, a registration ends normally with the
\* new record in the dataset and the dataset saved before the message is
\* sent; a Confirm Payment run ends normally with the store and the
\* dataset equal.
Inv_C9 ==
    /\ Accepted =>
         /\ status = "ok"
         /\ Len(data) = Len(pre) + 1
         /\ SubSeq(data, 1, Len(pre)) = pre
         /\ data[Len(data)].user.name = lastOp.form.name
         /\ data[Len(data)].user.contact = lastOp.form.contact
         /\ preFile # file
         /\ load_data(file) = [raised |-> FALSE, value |-> data]
         /\ effects[1] = "save"
         /\ \A i \in 2..Len(effects) : effects[i] = "sms"
         /\ Len(effects) = 2 <=> (twilio /\ lastOp.gateway = "delivered")
    /\ lastOp.op = "ConfirmPayment" =>
         /\ status = "ok"
         /\ load_data(file) = [raised |-> FALSE, value |-> data]

Wit_C9 ==
    /\ Accepted
    /\ twilio
    /\ lastOp.gateway = "failed"
    /\ Len(data) = 2
    /\ output[Len(output)].kind = "sms_failed"

\* C10: months overdue is (as_of.year - last_payment.year) * 12 +
\* (as_of.month - last_payment.month), whatever the days of the month
\* (2024-01-31 as of 2024-02-01: 1; 2024-01-01 as of 2024-01-31: 0), and
\* the amount Pending payments reports is that number times MONTHLY_FEE.
DateIndex(s) == CHOOSE k \in 1..Len(DateList) : StrfTime(DateList[k]) = s

Overdue(i, k) ==
    LET paid == DateList[DateIndex(data[i].user.last_payment)]
        as_of == DateList[k]
    IN  (as_of.year - paid.year) * 12 + (as_of.month - paid.month)

IsStatus(m) == m.kind \in {"owes", "up_to_date"}

Inv_C10 ==
    /\ lastOp.op = "Pending" =>
         LET report == SelectSeq(output, IsStatus)
         IN  /\ Len(report) = Len(data)
             /\ \A i \in 1..Len(data) :
                    LET months == Overdue(i, lastOp.date)
                    IN  /\ report[i] =
                              IF months > 0
                              THEN Msg("owes", data[i].code, months, months * 500)
                              ELSE Msg("up_to_date", data[i].code, 0, 0)
                        /\ (DateIndex(data[i].user.last_payment) = 2
                              /\ lastOp.date = 3) => report[i].months = 1
                        /\ (DateIndex(data[i].user.last_payment) = 1
                              /\ lastOp.date = 2) => report[i].kind = "up_to_date"
    /\ (lastOp.op = "FetchUser" /\ DictHas(data, lastOp.code)) =>
         output[1].months = Overdue(DictIndex(data, lastOp.code), lastOp.date)

Wit_C10 ==
    /\ lastOp.op = "Pending"
    /\ lastOp.date = 3
    /\ Len(data) = 2
    /\ DateIndex(data[1].user.last_payment) = 1
    /\ DateIndex(data[2].user.last_payment) = 2
    /\ output[1].months = 1
    /\ output[Len(output)].amount = 500

====
